---- MODULE Spec2Model ----
(***************************************************************************)
(* A model of src/app.py, the Streamlit "Excel/CSV Compiler".              *)
(*                                                                         *)
(* The script is re-executed from top to bottom on every user interaction  *)
(* (Streamlit's execution model); st.session_state survives the reruns and *)
(* so do the widgets' values, the file held by st.file_uploader included.  *)
(* One action of the model is one user interaction followed by the whole   *)
(* script run it triggers.  Each run gets the uploader's value afresh and  *)
(* reads the held file from its start, so a file that decodes once decodes *)
(* on every run.                                                           *)
(*                                                                         *)
(* A Python str is a sequence of one-character strings, so that strip(),   *)
(* lower() and endswith() are computed and not assumed.  A DataFrame is a  *)
(* record [columns, rows], each row a sequence of cell values aligned with *)
(* columns.  Files whose normalized labels collide are outside the inputs  *)
(* modelled (pandas' behaviour on duplicate labels is not in src/).        *)
(***************************************************************************)
EXTENDS Integers, Sequences, FiniteSets, TLC

VARIABLES expected_cols, compiled_df, uploaded_files,
          uploaded, add_source_col, source_col_name,
          event, message,
          dexp, dinc, dout

session == <<expected_cols, compiled_df, uploaded_files>>
widgets == <<uploaded, add_source_col, source_col_name>>
dvars   == <<dexp, dinc, dout>>
vars    == <<expected_cols, compiled_df, uploaded_files,
             uploaded, add_source_col, source_col_name,
             event, message, dexp, dinc, dout>>

\* ------------------------------------------------------------- bounds
\* Script runs are explored while fewer than MaxFiles files are recorded.
MaxFiles == 3
\* Longest column sequence handed to diff_cols in SpecDiff.
MaxLen == 2

\* ------------------------------------------------------------ strings
Range(s) == {s[i] : i \in 1..Len(s)}

UpperLetters == <<"A","B","C","D","E","F","G","H","I","J","K","L","M",
                  "N","O","P","Q","R","S","T","U","V","W","X","Y","Z">>
LowerLetters == <<"a","b","c","d","e","f","g","h","i","j","k","l","m",
                  "n","o","p","q","r","s","t","u","v","w","x","y","z">>

LowerChar(c) ==
    IF \E i \in 1..26 : UpperLetters[i] = c
    THEN LowerLetters[CHOOSE i \in 1..26 : UpperLetters[i] = c]
    ELSE c

\* str.lower()
lower(s) == [i \in 1..Len(s) |-> LowerChar(s[i])]

\* str.endswith(suffix)
endswith(s, suffix) ==
    /\ Len(s) >= Len(suffix)
    /\ SubSeq(s, Len(s) - Len(suffix) + 1, Len(s)) = suffix

IsSpace(c) == c \in {" ", "\t", "\n"}

RECURSIVE lstrip(_)
lstrip(s) == IF s # <<>> /\ IsSpace(Head(s)) THEN lstrip(Tail(s)) ELSE s

RECURSIVE rstrip(_)
rstrip(s) ==
    IF s # <<>> /\ IsSpace(s[Len(s)]) THEN rstrip(SubSeq(s, 1, Len(s) - 1)) ELSE s

\* str.strip()
strip(s) == rstrip(lstrip(s))

Digits == <<"0","1","2","3","4","5","6","7","8","9">>

RECURSIVE decimal(_)
decimal(n) == IF n < 10 THEN <<Digits[n + 1]>>
              ELSE decimal(n \div 10) \o <<Digits[(n % 10) + 1]>>

\* A raw column label as pandas reads it: a str, or a number (a numeric
\* header cell of a spreadsheet).  str(c) of the label.
StrLabel(s) == [t |-> "str", s |-> s, n |-> 0]
IntLabel(n) == [t |-> "int", s |-> <<>>, n |-> n]
str(c) == IF c.t = "int" THEN decimal(c.n) ELSE c.s


\* ------------------------------------------------------- uploaded files
\* An UploadedFile: its name, whether pandas can decode its content, and
\* the table the content holds (header labels, then data rows).
File(name, decodes, header, rows) ==
    [name |-> name, decodes |-> decodes, header |-> header, rows |-> rows]

ID == <<"i","d">>
NM == <<"n","m">>
SOURCE_FILE == <<"s","o","u","r","c","e","_","f","i","l","e">>
SRC2 == <<"s","2">>

FileA == File(<<"a",".","c","s","v">>, TRUE,
              <<StrLabel(ID), StrLabel(NM)>>,
              << <<<<"1">>, <<"x">>>>, <<<<"2">>, <<"y">>>> >>)
FileB == File(<<"b",".","C","S","V">>, TRUE,
              <<StrLabel(<<" ">> \o ID), StrLabel(NM \o <<" ">>)>>,
              << <<<<"3">>, <<"z">>>> >>)
FileC == File(<<"c",".","x","l","s","x">>, TRUE,
              <<StrLabel(NM), StrLabel(ID)>>,
              << <<<<"w">>, <<"4">>>> >>)
FileD == File(<<"d",".","x","l","s","x">>, TRUE,
              <<StrLabel(ID), StrLabel(NM), IntLabel(7)>>,
              << <<<<"5">>, <<"v">>, <<"u">>>> >>)
FileE == File(<<"e",".","t","x","t">>, TRUE,
              <<StrLabel(ID), StrLabel(NM)>>,
              << <<<<"6">>, <<"t">>>> >>)
FileG == File(<<"g",".","x","l","s">>, FALSE, <<>>, <<>>)

Files == {FileA, FileB, FileC, FileD, FileE, FileG}

\* The values st.text_input("Source column name") takes in the model: its
\* default, another free name, and a name that is also a data column.
SourceNames == {SOURCE_FILE, SRC2, ID}

\* Optional values (Python's None).
NoCols  == [isNone |-> TRUE,  v |-> <<>>]
SomeCols(c) == [isNone |-> FALSE, v |-> c]
EmptyDf == [columns |-> <<>>, rows |-> <<>>]
NoDf    == [isNone |-> TRUE,  v |-> EmptyDf]
SomeDf(df) == [isNone |-> FALSE, v |-> df]
NoFile  == [isNone |-> TRUE,  v |-> File(<<>>, FALSE, <<>>, <<>>)]
SomeFile(f) == [isNone |-> FALSE, v |-> f]

\* ----------------------------------------------------------- DataFrame
NaN == <<"N","a","N">>

IndexOf(seq, x) == CHOOSE i \in 1..Len(seq) : seq[i] = x

\* df[c] = v with a scalar v: an existing column c is overwritten in every
\* row, a new one is appended as the last column.
SetColumn(df, c, v) ==
    IF c \in Range(df.columns)
    THEN [columns |-> df.columns,
          rows |-> [i \in 1..Len(df.rows) |->
                      [j \in 1..Len(df.columns) |->
                          IF df.columns[j] = c THEN v ELSE df.rows[i][j]]]]
    ELSE [columns |-> Append(df.columns, c),
          rows |-> [i \in 1..Len(df.rows) |-> Append(df.rows[i], v)]]

\* The rows of df laid out on the column index cols; NaN where df has no
\* such column.
Reindex(df, cols) ==
    [i \in 1..Len(df.rows) |->
        [j \in 1..Len(cols) |->
            IF cols[j] \in Range(df.columns)
            THEN df.rows[i][IndexOf(df.columns, cols[j])]
            ELSE NaN]]

\* pd.concat([a, b], ignore_index=True): the union of the columns in order
\* of first appearance, a's rows and then b's.
concat(a, b) ==
    LET cols == a.columns \o SelectSeq(b.columns, LAMBDA c : c \notin Range(a.columns))
    IN  [columns |-> cols, rows |-> Reindex(a, cols) \o Reindex(b, cols)]

\* ------------------------------------------------------ app.py functions
Suffixes == { <<".","c","s","v">>, <<".","x","l","s","x">>, <<".","x","l","s">> }

read_any_table_no_else(f) ==
    [ok |-> f.decodes, df |-> [columns |-> f.header, rows |-> f.rows]]

\* read_any_table: [ok, df]; ok = FALSE stands for the exception raised
\* (ValueError for the suffix, or the decoder's own error).
read_any_table(f) ==
    LET name == lower(f.name)
    IN  IF \E suf \in Suffixes : endswith(name, suf)
        THEN [ok |-> f.decodes, df |-> [columns |-> f.header, rows |-> f.rows]]
        ELSE [ok |-> FALSE, df |-> EmptyDf]

normalize_columns(cols) == [i \in 1..Len(cols) |-> strip(str(cols[i]))]

cols_match_as_sets(expected, incoming) == Range(expected) = Range(incoming)

cols_match_prefix(expected, incoming) ==
    /\ Len(incoming) >= Len(expected)
    /\ SubSeq(incoming, 1, Len(expected)) = expected

cols_match(expected, incoming) == expected = incoming

diff_cols_sets_only(expected, incoming) ==
    [missing |-> SelectSeq(expected, LAMBDA c : c \notin Range(incoming)),
     extra   |-> SelectSeq(incoming, LAMBDA c : c \notin Range(expected)),
     order_issue |-> Range(expected) = Range(incoming)]

diff_cols(expected, incoming) ==
    LET exp_set == Range(expected)
        inc_set == Range(incoming)
    IN  [missing |-> SelectSeq(expected, LAMBDA c : c \notin inc_set),
         extra   |-> SelectSeq(incoming, LAMBDA c : c \notin exp_set),
         order_issue |-> exp_set = inc_set /\ expected # incoming]

\* ------------------------------------------------- the upload handling
\* What a script run shows about the upload: st.success / st.error and,
\* on a mismatch, the three lists of the breakdown.
Msg(kind, d) ==
    [kind |-> kind, missing |-> d.missing, extra |-> d.extra,
     order_issue |-> d.order_issue]
NoDiff == [missing |-> <<>>, extra |-> <<>>, order_issue |-> FALSE]

\* The session state a script run starts from and ends with.
Session(e, c, u) == [expected_cols |-> e, compiled_df |-> c, uploaded_files |-> u]
Outcome(ss, m) ==
    [expected_cols |-> ss.expected_cols, compiled_df |-> ss.compiled_df,
     uploaded_files |-> ss.uploaded_files, message |-> m]

AddSource_lowered(df_new, add, scn, fname) ==
    IF add THEN SetColumn(df_new, scn, lower(fname)) ELSE df_new

\* if add_source_col: df_new[source_col_name] = uploaded.name
AddSource(df_new, add, scn, fname) ==
    IF add THEN SetColumn(df_new, scn, fname) ELSE df_new

SeedBranch_lock_late(ss, df_new, fname, add, scn) ==
    LET tagged == AddSource(df_new, add, scn, fname)
    IN  Outcome(Session(SomeCols(tagged.columns), SomeDf(tagged),
                        Append(ss.uploaded_files, fname)),
                Msg("seeded", NoDiff))

\* The first file: lock the columns, tag, store, record the name.
SeedBranch(ss, df_new, fname, add, scn) ==
    LET tagged == AddSource(df_new, add, scn, fname)
    IN  Outcome(Session(SomeCols(df_new.columns), SomeDf(tagged),
                        Append(ss.uploaded_files, fname)),
                Msg("seeded", NoDiff))

\* A later file whose columns match: tag, concatenate, record the name.
AppendBranch(ss, df_new, fname, add, scn) ==
    LET tagged == AddSource(df_new, add, scn, fname)
    IN  Outcome(Session(ss.expected_cols,
                        SomeDf(concat(ss.compiled_df.v, tagged)),
                        Append(ss.uploaded_files, fname)),
                Msg("appended", NoDiff))

\* A later file whose columns differ: the breakdown is shown, nothing is stored.
MismatchBranch(ss, incoming_cols) ==
    Outcome(ss, Msg("mismatch", diff_cols(ss.expected_cols.v, incoming_cols)))

\* if uploaded is not None: try: ... except Exception as e: st.error(...)
HandleUpload(ss, up, add, scn) ==
    IF up.isNone THEN Outcome(ss, Msg("none", NoDiff))
    ELSE LET r == read_any_table(up.v)
         IN  IF ~r.ok THEN Outcome(ss, Msg("failed", NoDiff))
             ELSE LET df_new == [columns |-> normalize_columns(r.df.columns),
                                 rows |-> r.df.rows]
                  IN  IF ss.expected_cols.isNone
                      THEN SeedBranch(ss, df_new, up.v.name, add, scn)
                      ELSE IF cols_match(ss.expected_cols.v, df_new.columns)
                           THEN AppendBranch(ss, df_new, up.v.name, add, scn)
                           ELSE MismatchBranch(ss, df_new.columns)

\* One run of the script body below the sidebar, from session state ss with
\* the widgets' values up, add and scn.
RunScript(ss, up, add, scn) ==
    LET out == HandleUpload(ss, up, add, scn)
    IN  /\ expected_cols' = out.expected_cols
        /\ compiled_df' = out.compiled_df
        /\ uploaded_files' = out.uploaded_files
        /\ message' = out.message

Current == Session(expected_cols, compiled_df, uploaded_files)

\* The "Reset / Clear all" button sets all three to their initial values.
Cleared == Session(NoCols, NoDf, <<>>)

\* --------------------------------------------------------------- actions
Init ==
    /\ expected_cols = NoCols
    /\ compiled_df = NoDf
    /\ uploaded_files = <<>>
    /\ uploaded = NoFile
    /\ add_source_col = TRUE
    /\ source_col_name = SOURCE_FILE
    /\ event = "start"
    /\ message = Msg("none", NoDiff)
    /\ dexp = <<>> /\ dinc = <<>> /\ dout = Msg("none", NoDiff)

Bounded == Len(uploaded_files) < MaxFiles

\* The user puts a file into the uploader; the script runs with it.
Upload(f) ==
    /\ Bounded
    /\ uploaded' = SomeFile(f)
    /\ event' = "upload"
    /\ RunScript(Current, SomeFile(f), add_source_col, source_col_name)
    /\ UNCHANGED <<add_source_col, source_col_name, dvars>>

\* The user removes the file from the uploader; the script runs without one.
ClearUpload ==
    /\ Bounded
    /\ ~uploaded.isNone
    /\ uploaded' = NoFile
    /\ event' = "clear"
    /\ RunScript(Current, NoFile, add_source_col, source_col_name)
    /\ UNCHANGED <<add_source_col, source_col_name, dvars>>

\* The user ticks or unticks "Add source filename column"; the script runs.
ToggleSource ==
    /\ Bounded
    /\ add_source_col' = ~add_source_col
    /\ event' = "toggle"
    /\ RunScript(Current, uploaded, ~add_source_col, source_col_name)
    /\ UNCHANGED <<uploaded, source_col_name, dvars>>

\* The user edits "Source column name" (enabled only while the box is
\* ticked); the script runs.
RenameSource(n) ==
    /\ Bounded
    /\ add_source_col
    /\ n # source_col_name
    /\ source_col_name' = n
    /\ event' = "rename"
    /\ RunScript(Current, uploaded, add_source_col, n)
    /\ UNCHANGED <<uploaded, add_source_col, dvars>>

\* The user edits the output filename or presses the download button (both
\* are rendered only when there is a compiled table); the script runs.
Download ==
    /\ Bounded
    /\ ~compiled_df.isNone
    /\ event' = "download"
    /\ RunScript(Current, uploaded, add_source_col, source_col_name)
    /\ UNCHANGED <<widgets, dvars>>

\* The user presses "Reset / Clear all": the handler clears the session
\* state and calls st.rerun(), which runs the script again at once with the
\* widgets as they are.
Reset ==
    /\ event' = "reset"
    /\ RunScript(Cleared, uploaded, add_source_col, source_col_name)
    /\ UNCHANGED <<widgets, dvars>>

Next ==
    \/ \E f \in Files : Upload(f)
    \/ ClearUpload
    \/ ToggleSource
    \/ \E n \in SourceNames : RenameSource(n)
    \/ Download
    \/ Reset

Spec == Init /\ [][Next]_vars

\* ------------------------------------------- diff_cols as a pure function
DiffLabels == {ID, NM, <<"7">>}
ColSeqs == UNION {[1..n -> DiffLabels] : n \in 0..MaxLen}

InitDiff ==
    /\ expected_cols = NoCols
    /\ compiled_df = NoDf
    /\ uploaded_files = <<>>
    /\ uploaded = NoFile
    /\ add_source_col = TRUE
    /\ source_col_name = SOURCE_FILE
    /\ event = "start"
    /\ message = Msg("none", NoDiff)
    /\ dexp \in ColSeqs
    /\ dinc \in ColSeqs
    /\ dout = Msg("none", NoDiff)

\* cols_match, then diff_cols, on the two sequences drawn.
Compare ==
    /\ dout.kind = "none"
    /\ dout' = Msg(IF cols_match(dexp, dinc) THEN "exact" ELSE "mismatch",
                   diff_cols(dexp, dinc))
    /\ UNCHANGED <<session, widgets, event, message, dexp, dinc>>

NextDiff == Compare

SpecDiff == InitDiff /\ [][NextDiff]_vars

\* ---------------------------------------------------------------- claims
\* The file a step's script run processes, and what the code reads of it.
BadName(f) == \A suf \in Suffixes : ~endswith(lower(f.name), suf)
Failing(f) == BadName(f) \/ ~f.decodes
NormCols(f) == normalize_columns(f.header)

\* C1: in a seeded session, a script run on a readable file whose normalized
\* columns differ from the Expected Schema leaves the schema, the compiled
\* table and the list of filenames as they were -- on every such run.
C1_RejectionHasNoEffect ==
    [][ ( /\ ~expected_cols.isNone
          /\ event' # "reset"
          /\ ~uploaded'.isNone
          /\ ~Failing(uploaded'.v)
          /\ NormCols(uploaded'.v) # expected_cols.v )
        => UNCHANGED session ]_vars

C1_Witness ==
    /\ event = "upload"
    /\ message.kind = "mismatch"
    /\ message.order_issue
    /\ Len(uploaded_files) >= 2

\* C2: in a seeded session a readable file is accepted (filename recorded,
\* its rows added) if and only if its normalized column sequence equals the
\* Expected Schema element-wise.
C2_AcceptedIffExactMatch ==
    [][ ( /\ ~expected_cols.isNone
          /\ event' # "reset"
          /\ ~uploaded'.isNone
          /\ ~Failing(uploaded'.v) )
        => ( ( /\ uploaded_files' = Append(uploaded_files, uploaded'.v.name)
               /\ ~compiled_df'.isNone
               /\ Len(compiled_df'.v.rows)
                    = Len(compiled_df.v.rows) + Len(uploaded'.v.rows) )
             <=> NormCols(uploaded'.v) = expected_cols.v ) ]_vars

C2_Witness ==
    /\ event = "upload"
    /\ message.kind = "appended"
    /\ uploaded.v = FileB
    /\ uploaded_files = <<FileA.name, FileB.name>>

\* C3: the Expected Schema changes only from absent to the normalized
\* columns of the file being seeded (without the provenance column), or by
\* a reset; every other step leaves it as it is.
C3_SchemaLockedOnce ==
    [][ /\ (~expected_cols.isNone /\ event' # "reset")
            => expected_cols' = expected_cols
        /\ (expected_cols' # expected_cols /\ ~expected_cols'.isNone)
            => /\ ~uploaded'.isNone
               /\ expected_cols'.v = NormCols(uploaded'.v) ]_vars

C3_Witness ==
    /\ ~expected_cols.isNone
    /\ message.kind = "appended"
    /\ Len(uploaded_files) >= 2
    /\ expected_cols.v = <<ID, NM>>
    /\ Len(compiled_df.v.columns) > Len(expected_cols.v)

\* C4 (as claimed): after an accepted append the table is its previous rows,
\* unchanged and in order, then the file's rows in file order, each keeping
\* for every Expected Schema column the value read from the file -- for any
\* provenance setting.  Stated of the runs a new upload triggers.
C4_AppendKeepsFileValues ==
    [][ ( /\ ~expected_cols.isNone
          /\ event' = "upload"
          /\ ~uploaded'.isNone
          /\ ~Failing(uploaded'.v)
          /\ NormCols(uploaded'.v) = expected_cols.v )
        => LET old == compiled_df.v
               new == compiled_df'.v
               f   == uploaded'.v
               n   == Len(old.rows)
           IN  /\ Len(new.rows) = n + Len(f.rows)
               /\ \A i \in 1..n : \A j \in 1..Len(old.columns) :
                     /\ old.columns[j] \in Range(new.columns)
                     /\ new.rows[i][IndexOf(new.columns, old.columns[j])] = old.rows[i][j]
               /\ \A i \in 1..Len(f.rows) : \A j \in 1..Len(expected_cols.v) :
                     /\ expected_cols.v[j] \in Range(new.columns)
                     /\ new.rows[n + i][IndexOf(new.columns, expected_cols.v[j])]
                          = f.rows[i][j] ]_vars

\* C5 (as claimed): after a reset the Expected Schema is absent, the compiled
\* table is absent and the list of filenames is empty.
C5_ResetLeavesEmpty ==
    event = "reset"
        => expected_cols.isNone /\ compiled_df.isNone /\ uploaded_files = <<>>

\* C6: a script run on a file with an unsupported suffix or undecodable
\* content reports the failure and changes nothing; the next upload of a
\* readable file is processed as usual.
C6_FailedReadHasNoEffect ==
    [][ /\ (event' # "reset" /\ ~uploaded'.isNone /\ Failing(uploaded'.v))
            => (UNCHANGED session /\ message'.kind = "failed")
        /\ ( /\ message.kind = "failed"
             /\ event' = "upload"
             /\ ~Failing(uploaded'.v) )
            => /\ message'.kind \in {"seeded", "appended", "mismatch"}
               /\ expected_cols.isNone
                    => /\ uploaded_files' = <<uploaded'.v.name>>
                       /\ expected_cols' = SomeCols(NormCols(uploaded'.v)) ]_vars

C6_Witness ==
    /\ message.kind = "failed"
    /\ event = "upload"
    /\ uploaded.v = FileE
    /\ ~expected_cols.isNone

\* C7: diff_cols returns missing = the elements of expected absent from
\* incoming in expected's order, extra = the elements of incoming absent from
\* expected in incoming's order, and reordered exactly when the sequences
\* differ with equal element sets (then missing and extra are empty); equal
\* sequences give [], [], false and disjoint ones give expected, incoming,
\* false.
RECURSIVE Absent(_, _)
Absent(s, other) ==
    IF s = <<>> THEN <<>>
    ELSE (IF \E k \in 1..Len(other) : other[k] = Head(s) THEN <<>> ELSE <<Head(s)>>)
         \o Absent(Tail(s), other)

C7_DiffCols ==
    dout.kind # "none" =>
        /\ dout.missing = Absent(dexp, dinc)
        /\ dout.extra = Absent(dinc, dexp)
        /\ dout.order_issue <=> (dexp # dinc /\ Range(dexp) = Range(dinc))
        /\ dout.order_issue => (dout.missing = <<>> /\ dout.extra = <<>>)
        /\ dexp = dinc
            => (dout.missing = <<>> /\ dout.extra = <<>> /\ ~dout.order_issue)
        /\ Range(dexp) \cap Range(dinc) = {}
            => (dout.missing = dexp /\ dout.extra = dinc /\ ~dout.order_issue)

C7_Witness ==
    /\ dout.kind = "mismatch"
    /\ dout.order_issue
    /\ dexp = <<ID, NM>>
    /\ dinc = <<NM, ID>>

\* C8 (as claimed): in every seeded state the compiled table's columns are
\* the Expected Schema columns in order, followed by at most one provenance
\* column.
C8_AtMostOneProvenanceColumn ==
    ~compiled_df.isNone =>
        LET cols == compiled_df.v.columns
            e    == expected_cols.v
        IN  /\ Len(cols) \in {Len(e), Len(e) + 1}
            /\ SubSeq(cols, 1, Len(e)) = e

\* C9: with the provenance column enabled, the rows an accepted file adds
\* carry its filename in the provenance column; and no step other than a
\* reset changes a value of a row already in the table.
C9_ProvenanceTagged ==
    [][ /\ ( /\ add_source_col'
             /\ uploaded_files' # (IF event' = "reset" THEN <<>> ELSE uploaded_files) )
            => LET df == compiled_df'.v
                   n  == Len(df.rows)
               IN  /\ ~uploaded'.isNone
                   /\ source_col_name' \in Range(df.columns)
                   /\ n >= Len(uploaded'.v.rows)
                   /\ \A i \in (n - Len(uploaded'.v.rows) + 1)..n :
                         df.rows[i][IndexOf(df.columns, source_col_name')]
                            = uploaded'.v.name
        /\ (event' # "reset" /\ ~compiled_df.isNone)
            => LET old == compiled_df.v
                   new == compiled_df'.v
               IN  /\ ~compiled_df'.isNone
                   /\ Len(new.rows) >= Len(old.rows)
                   /\ Len(new.columns) >= Len(old.columns)
                   /\ SubSeq(new.columns, 1, Len(old.columns)) = old.columns
                   /\ \A i \in 1..Len(old.rows) : \A j \in 1..Len(old.columns) :
                         new.rows[i][j] = old.rows[i][j] ]_vars

C9_Witness ==
    /\ add_source_col
    /\ message.kind = "mismatch"
    /\ uploaded_files = <<FileA.name, FileB.name>>
    /\ compiled_df.v.columns = <<ID, NM, SOURCE_FILE>>
    /\ compiled_df.v.rows[1][3] = FileA.name
    /\ compiled_df.v.rows[3][3] = FileB.name

\* C10 (as claimed): an interaction that is neither an upload nor a reset
\* leaves the Expected Schema, the compiled table and the list of filenames
\* unchanged.
C10_OnlyUploadsChangeState ==
    [][ event' \in {"toggle", "rename", "download", "clear"}
        => UNCHANGED session ]_vars
====
